---- MODULE Spec2Model ----
(***************************************************************************)
(* State-machine model of sispm.py: one OutletDevice session bound to one  *)
(* Gembird USB outlet device.  Every control-transfer attempt is one step, *)
(* the device and the bus are the environment.                             *)
(***************************************************************************)
EXTENDS Integers, Sequences, FiniteSets, TLC

\* ---------------------------------------------------------------- bounds
\* Most switches of an outlet from outside the session during one public call.
MaxExternal == 1

\* ------------------------------------------------------ program constants
VENDOR == 1204
MSISPM_OLD == 64784
SISPM == 64785
MSISPM_FLASH == 64786
MSISPM_FLASH_NEW == 64787
TRIES == 5

Products == {MSISPM_OLD, SISPM, MSISPM_FLASH, MSISPM_FLASH_NEW}

\* product id -> <<outlet tuple, label>>
DEVICE_TYPES ==
    [p \in Products |->
        IF p \in {SISPM, MSISPM_FLASH_NEW}
        THEN <<(<<1, 2, 3, 4>>), "4-socket SiS-PM">>
        ELSE <<(<<1>>), "1-socket mSiS-PM">>]

\* ------------------------------------------------------------ pure helpers
RECURSIVE BitOr(_, _)
\* a | b on naturals
BitOr(a, b) ==
    IF a = 0 THEN b
    ELSE IF b = 0 THEN a
    ELSE (IF (a % 2 = 1) \/ (b % 2 = 1) THEN 1 ELSE 0)
         + 2 * BitOr(a \div 2, b \div 2)

\* a << k
Shl(a, k) == a * (2 ^ k)

\* bytearray(6)
bytearray6 == <<0, 0, 0, 0, 0, 0>>

Range(s) == {s[k] : k \in DOMAIN s}

\* the property OutletDevice.outlets
outlets(p) == DEVICE_TYPES[p][1]

\* Arguments a caller may pass as `num`: integers and strings.
IntArg(n) == [tag |-> "int", n |-> n, s |-> ""]
StrArg(s) == [tag |-> "str", n |-> 0, s |-> s]
NoArg == StrArg("")
Args == {IntArg(n) : n \in 0..5} \cup {StrArg("all"), StrArg("ALL")}

\* Variant: membership tested against the four-outlet tuple whatever the device.
InOutlets_AnyDevice(v, p) == v.tag = "int" /\ v.n \in 1..4

\* `num in self.outlets`
InOutlets(v, p) == v.tag = "int" /\ v.n \in Range(outlets(p))
\* `num == 'all'`
IsAll(v) == v.tag = "str" /\ v.s = "all"

\* The control-transfer parameter tuples built by the primitives.
SerialRequest ==
    [req_type |-> 161, req |-> 1, value |-> BitOr(Shl(3, 8), 1), index |-> 0,
     bytes |-> bytearray6, timeout |-> 500]

\* Variant: the buffer carries the outlet number itself, not three times it.
StatusRequest_Unscaled(num) ==
    [req_type |-> BitOr(33, 128), req |-> 1,
     value |-> BitOr(Shl(3, 8), num * 3), index |-> 0,
     bytes |-> [bytearray6 EXCEPT ![1] = num], timeout |-> 500]

StatusRequest(num) ==
    [req_type |-> BitOr(33, 128), req |-> 1,
     value |-> BitOr(Shl(3, 8), num * 3), index |-> 0,
     bytes |-> [bytearray6 EXCEPT ![1] = num * 3], timeout |-> 500]

WriteRequest(num, turnOn) ==
    [req_type |-> 33, req |-> 9,
     value |-> BitOr(Shl(3, 8), num * 3), index |-> 0,
     bytes |-> IF turnOn
               THEN [bytearray6 EXCEPT ![1] = num * 3, ![2] = 3]
               ELSE [bytearray6 EXCEPT ![1] = num * 3],
     timeout |-> 500]

\* bool(reply[1]) of _status (Python index 1 is the second byte)
StatusOf(reply) == reply[2] # 0

IsWrite(r) == r.req = 9
IsSerialRead(r) == r.req = 1 /\ r.value = 769
IsStatusRead(r) == r.req = 1 /\ r.value # 769
\* the outlet a request addresses on the device
Addressed(r) == (r.value % 256) \div 3

\* ------------------------------------------------------------------ state
VARIABLES
    product,         \* device.idProduct
    autodispose,     \* self.autodispose
    claimed,         \* the device configuration is claimed by this session
    hw,              \* physical state of every outlet of the device
    devSerial,       \* the 6 serial bytes stored in the device
    pc,              \* "idle" | "run" | "finally" | "done"
    op,              \* the public operation in progress or last completed
    arg,             \* its `num` argument
    todo,            \* outlets still to process, the head is the current one
    phase,           \* position inside the current outlet's sub-operation
    i,               \* loop variable of _usb_command
    attempts,        \* ctrl_transfer calls of the most recent _usb_command
    sleeps,          \* sleep(.05) calls of the most recent _usb_command
    fails,           \* USBErrors caught by the most recent _usb_command
    outcome,         \* last attempt: "none" | "retry" | "ok" | "raised"
    reply,           \* what ctrl_transfer returned on the last attempt
    value,           \* what _usb_command returned on the last attempt
    res,             \* results collected so far: outlet -> bool
    serialRet,       \* bytes returned by _get_serial
    err,             \* exception leaving the call, kind "none" if none
    releases,        \* dispose_resources calls made by the current call
    trace,           \* requests of the _usb_command calls of the current call
    reported,        \* outlet states the device reported to its status reads
    ext,             \* switches of an addressed outlet from outside during the call
    relErr,          \* what dispose_resources raised inside the wrapper
    serialStr,       \* the string the serial property returned
    metered,         \* the call meters below are kept
    total,           \* ctrl_transfer calls of the current call
    entryClaimed,    \* "claimed" | "released" when the call began, "-" unmetered
    bus,             \* the USB devices find() enumerates, in order
    scan             \* the get_device_by_serial call in progress or last made

vars == <<product, autodispose, claimed, hw, devSerial, pc, op, arg, todo,
          phase, i, attempts, sleeps, fails, outcome, reply, value, res,
          serialRet, err,
          releases, trace, reported, ext, relErr, serialStr, metered, total,
          entryClaimed, bus, scan>>

\* What no method of the session assigns.
devVars == <<product, devSerial, metered, bus, scan>>
\* What only the beginning and the end of a call assign.
callVars == <<relErr, serialStr, entryClaimed>>

\* State of the lookup while no lookup is made.
NoScan == [pc |-> "none", wanted |-> "", products |-> {}, pos |-> 0,
           found |-> 0, err |-> "none", order |-> <<>>, dev |-> <<>>]
cmdVars == <<i, attempts, sleeps, fails, outcome, reply, value>>

NoErr == [kind |-> "none", outlet |-> NoArg]
OutletException(v) == [kind |-> "OutletException", outlet |-> v]
USBError == [kind |-> "USBError", outlet |-> NoArg]

\* What a transfer hands back: the byte count and, for a read, the bytes.
Reply(n, data) == [written |-> n, data |-> data]
None == Reply(0, <<>>)

EmptyMap == [n \in {} |-> FALSE]

SerialSamples == {<<26, 2, 255, 0, 11, 156>>}

\* OutletDevice.__init__: the handle is stored, the configuration claimed,
\* auto-release switched on.
Init ==
    /\ product \in Products
    /\ devSerial \in SerialSamples
    /\ hw \in [Range(outlets(product)) -> BOOLEAN]
    /\ autodispose = TRUE
    /\ claimed = TRUE
    /\ pc = "idle"
    /\ op = "none"
    /\ arg = NoArg
    /\ todo = <<>>
    /\ phase = "none"
    /\ i = 0
    /\ attempts = 0
    /\ sleeps = 0
    /\ fails = 0
    /\ outcome = "none"
    /\ reply = None
    /\ value = None
    /\ res = EmptyMap
    /\ serialRet = <<>>
    /\ err = NoErr
    /\ releases = 0
    /\ trace = <<>>
    /\ reported = <<>>
    /\ ext = 0
    /\ relErr = "none"
    /\ serialStr = ""
    /\ metered = "none"
    /\ total = 0
    /\ entryClaimed = "-"
    /\ bus = <<>>
    /\ scan = NoScan


\* ------------------------------------------------------------ environment
\* Non-zero values the device may put in the status byte of an outlet that is on.
OnBytes == {1, 3}

\* What the device does with a request that arrives: the reply it gives and
\* the outlet states it ends up with.  A status read echoes the buffer with
\* the status byte filled in; a write either takes effect or is ignored.
DeviceOutcomes(r) ==
    IF IsSerialRead(r)
    THEN {[reply |-> Reply(6, devSerial), hw |-> hw, reported |-> reported]}
    ELSE IF IsStatusRead(r)
    THEN {[reply |-> Reply(6, [r.bytes EXCEPT ![2] = b]), hw |-> hw,
           reported |-> Append(reported, hw[Addressed(r)])] :
              b \in IF hw[Addressed(r)] THEN OnBytes ELSE {0}}
    ELSE {[reply |-> Reply(6, <<>>),
           hw |-> IF takes THEN [hw EXCEPT ![Addressed(r)] = (r.bytes[2] # 0)]
                  ELSE hw,
           reported |-> reported] : takes \in BOOLEAN}

\* ------------------------------------------------------- serial formatting
\* Python strings are kept as sequences of characters until the end.
HexChars == <<"0", "1", "2", "3", "4", "5", "6", "7",
              "8", "9", "a", "b", "c", "d", "e", "f">>

RECURSIVE HexDigits(_)
\* the digits hex() writes for n, most significant first, no leading zero
HexDigits(n) ==
    IF n < 16 THEN <<HexChars[n + 1]>>
    ELSE Append(HexDigits(n \div 16), HexChars[(n % 16) + 1])

\* hex(n)
hex(n) == <<"0", "x">> \o HexDigits(n)

\* s[2:]
From2(s) == SubSeq(s, 3, Len(s))

RECURSIVE zfill(_, _)
\* s.zfill(width)
zfill(s, width) == IF Len(s) >= width THEN s ELSE zfill(<<"0">> \o s, width)

RECURSIVE join(_, _)
\* sep.join(parts)
join(sep, parts) ==
    IF parts = <<>> THEN <<>>
    ELSE IF Len(parts) = 1 THEN parts[1]
    ELSE parts[1] \o sep \o join(sep, Tail(parts))

RECURSIVE Str(_)
\* the characters as one string
Str(chars) == IF chars = <<>> THEN "" ELSE chars[1] \o Str(Tail(chars))

\* Variant: the groups are not padded, hex(i)[2:] alone.
SerialString_NoPad(bytes) ==
    Str(join(<<":">>, [k \in DOMAIN bytes |-> From2(hex(bytes[k]))]))

\* ':'.join(hex(i)[2:].zfill(2) for i in self._get_serial())
SerialString(bytes) ==
    Str(join(<<":">>, [k \in DOMAIN bytes |-> zfill(From2(hex(bytes[k])), 2)]))

\* ------------------------------------------------------------- the session
\* First position of the sub-operation a public operation runs per outlet.
FirstPhase(o) ==
    CASE o = "status" -> "status"
      [] o = "on"     -> "check_on"
      [] o = "off"    -> "check_off"
      [] o = "toggle" -> "tstatus"
      [] OTHER        -> "serial"

\* The request the _usb_command call at position ph sends for outlet num.
RequestAt(ph, num) ==
    CASE ph = "serial"    -> SerialRequest
      [] ph = "write_on"  -> WriteRequest(num, TRUE)
      [] ph = "write_off" -> WriteRequest(num, FALSE)
      [] OTHER            -> StatusRequest(num)

CurrentOutlet == IF todo = <<>> THEN 0 ELSE Head(todo)
CurrentRequest == RequestAt(phase, CurrentOutlet)

\* A frame is what the body of the public operation does next.
Frame(ph, td, rs, p, sr) ==
    [phase |-> ph, todo |-> td, res |-> rs, pc |-> p, serialRet |-> sr]

\* Variant: the result of the first outlet is returned out of the loop.
Yield_First(r) ==
    LET rs == [n \in DOMAIN res \cup {Head(todo)} |->
                  IF n = Head(todo) THEN r ELSE res[n]]
    IN  Frame("none", <<>>, rs, "finally", serialRet)

\* Variant: a sub-operation that yields False ends the loop.
Yield_AbortOnFalse(r) ==
    LET rest == Tail(todo)
        rs == [n \in DOMAIN res \cup {Head(todo)} |->
                  IF n = Head(todo) THEN r ELSE res[n]]
    IN  IF rest = <<>> \/ ~r
        THEN Frame("none", <<>>, rs, "finally", serialRet)
        ELSE Frame(FirstPhase(op), rest, rs, "run", serialRet)

\* The sub-operation of the current outlet returned r: store it under the
\* outlet and go on with the next outlet of the tuple, or return.
Yield(r) ==
    LET rest == Tail(todo)
        rs == [n \in DOMAIN res \cup {Head(todo)} |->
                  IF n = Head(todo) THEN r ELSE res[n]]
    IN  IF rest = <<>>
        THEN Frame("none", rest, rs, "finally", serialRet)
        ELSE Frame(FirstPhase(op), rest, rs, "run", serialRet)

Goto(ph) == Frame(ph, todo, res, "run", serialRet)

\* _status(num) as called by status(): the decoded status is the result.
_status(st) == Yield(st)

\* Variant: _on without the early return, the write is always sent.
_on_AlwaysWrite(ph, st) ==
    CASE ph = "check_on"  -> Goto("write_on")
      [] ph = "write_on"  -> Goto("confirm_on")
      [] OTHER            -> Yield(st)

\* Variant: _on reports success once the write went through, unconfirmed.
_on_Unconfirmed(ph, st) ==
    CASE ph = "check_on"  -> IF st THEN Yield(TRUE) ELSE Goto("write_on")
      [] ph = "write_on"  -> Goto("confirm_on")
      [] OTHER            -> Yield(TRUE)

\* _on(num), by position: the first status read, the write, the confirming read.
_on(ph, st) ==
    CASE ph = "check_on"  -> IF st THEN Yield(TRUE) ELSE Goto("write_on")
      [] ph = "write_on"  -> Goto("confirm_on")
      [] OTHER            -> Yield(st)

\* Variant: _off reports success once the write went through, unconfirmed.
_off_Unconfirmed(ph, st) ==
    CASE ph = "check_off" -> IF ~st THEN Yield(TRUE) ELSE Goto("write_off")
      [] ph = "write_off" -> Goto("confirm_off")
      [] OTHER            -> Yield(TRUE)

\* _off(num), by position.
_off(ph, st) ==
    CASE ph = "check_off" -> IF ~st THEN Yield(TRUE) ELSE Goto("write_off")
      [] ph = "write_off" -> Goto("confirm_off")
      [] OTHER            -> Yield(~st)

\* Variant: toggle reuses its own status read and goes straight to the write.
toggle_Direct(st) == IF st THEN Goto("write_off") ELSE Goto("write_on")

\* toggle's own status read picks the branch target.
toggle(st) == IF st THEN Goto("check_off") ELSE Goto("check_on")

\* _get_serial returns the bytes read.
_get_serial(data) == Frame("none", todo, res, "finally", data)

\* What the body does with the value a _usb_command call returned.
Continue(ret) ==
    LET st == IF phase \in {"write_on", "write_off", "serial"} THEN FALSE
              ELSE StatusOf(ret.data)
    IN  CASE phase = "status"  -> _status(st)
          [] phase = "tstatus" -> toggle(st)
          [] phase \in {"check_on", "write_on", "confirm_on"} -> _on(phase, st)
          [] phase \in {"check_off", "write_off", "confirm_off"} -> _off(phase, st)
          [] OTHER -> _get_serial(ret.data)

\* `return self.device.ctrl_transfer(...)`
UsbReturn(got) == got

\* Variant: the loop starts one too high, range(TRIES, -1, -1).
FirstI_OffByOne == TRIES

\* State of a fresh _usb_command call: the loop starts at TRIES-1.
FirstI == TRIES - 1

BeginCmd ==
    /\ i' = FirstI
    /\ attempts' = 0
    /\ sleeps' = 0
    /\ fails' = 0

\* A call starts: nothing has been transferred yet.
FreshCmd ==
    /\ BeginCmd
    /\ outcome' = "none"
    /\ reply' = None
    /\ value' = None

ResetCall ==
    /\ res' = EmptyMap
    /\ serialRet' = <<>>
    /\ trace' = <<>>
    /\ reported' = <<>>
    /\ ext' = 0
    /\ relErr' = "none"
    /\ serialStr' = ""
    /\ total' = 0

\* The meter of the claim state the call found.
EntryMeter ==
    entryClaimed' = IF metered # "claim" THEN "-"
                    ELSE IF claimed THEN "claimed" ELSE "released"

\* The meter of the ctrl_transfer calls.
Metered(n) == IF metered = "attempts" THEN n + 1 ELSE n

\* Entry of a wrapped public operation o with argument v: the membership
\* test, the 'all' test, or the illegal-outlet error.
Enter(o, v) ==
    /\ pc = "idle"
    /\ op' = o
    /\ arg' = v
    /\ ResetCall
    /\ EntryMeter
    /\ FreshCmd
    /\ IF InOutlets(v, product)
       THEN /\ todo' = <<v.n>>
            /\ phase' = FirstPhase(o)
            /\ pc' = "run"
            /\ err' = NoErr
            /\ releases' = 0
       ELSE IF IsAll(v)
       THEN /\ todo' = outlets(product)
            /\ phase' = FirstPhase(o)
            /\ pc' = "run"
            /\ err' = NoErr
            /\ releases' = 0
       ELSE /\ todo' = <<>>
            /\ phase' = "none"
            /\ pc' = "finally"
            /\ err' = OutletException(v)
            /\ releases' = 0
    /\ UNCHANGED <<devVars, autodispose, claimed, hw>>

status(v) == Enter("status", v)
on(v) == Enter("on", v)
off(v) == Enter("off", v)
Toggle(v) == Enter("toggle", v)

\* The serial property calls the wrapped _get_serial.
serial ==
    /\ pc = "idle"
    /\ op' = "serial"
    /\ arg' = NoArg
    /\ ResetCall
    /\ EntryMeter
    /\ FreshCmd
    /\ todo' = <<>>
    /\ phase' = "serial"
    /\ pc' = "run"
    /\ err' = NoErr
    /\ releases' = 0
    /\ UNCHANGED <<devVars, autodispose, claimed, hw>>

Sent == IF attempts = 0 THEN Append(trace, CurrentRequest) ELSE trace

\* Variant: a released device stays released when a transfer is made.
UsbCommandReturn_NoClaim ==
    /\ pc = "run"
    /\ \E o \in DeviceOutcomes(CurrentRequest) :
          LET v == UsbReturn(o.reply)
              f == Continue(v)
          IN  /\ hw' = o.hw
              /\ reported' = o.reported
              /\ reply' = o.reply
              /\ value' = v
              /\ phase' = f.phase
              /\ todo' = f.todo
              /\ res' = f.res
              /\ pc' = f.pc
              /\ serialRet' = f.serialRet
              /\ IF f.pc = "run"
                 THEN BeginCmd
                 ELSE /\ attempts' = attempts + 1
                      /\ UNCHANGED <<i, sleeps, fails>>
    /\ outcome' = "ok"
    /\ trace' = Sent
    /\ total' = Metered(total)
    /\ UNCHANGED <<devVars, callVars, autodispose, claimed, op, arg, err,
                   releases, ext>>

\* One ctrl_transfer attempt of _usb_command that succeeds: the value is
\* returned at once and the body goes on.
UsbCommandReturn ==
    /\ pc = "run"
    /\ \E o \in DeviceOutcomes(CurrentRequest) :
          LET v == UsbReturn(o.reply)
              f == Continue(v)
          IN  /\ hw' = o.hw
              /\ reported' = o.reported
              /\ reply' = o.reply
              /\ value' = v
              /\ phase' = f.phase
              /\ todo' = f.todo
              /\ res' = f.res
              /\ pc' = f.pc
              /\ serialRet' = f.serialRet
              /\ IF f.pc = "run"
                 THEN BeginCmd
                 ELSE /\ attempts' = attempts + 1
                      /\ UNCHANGED <<i, sleeps, fails>>
    /\ outcome' = "ok"
    /\ trace' = Sent
    /\ claimed' = TRUE
    /\ total' = Metered(total)
    /\ UNCHANGED <<devVars, callVars, autodispose, op, arg, err, releases, ext>>

\* Variant: no try is the last one, the loop goes on for ever.
LastTry_Never(k) == k = 0 /\ FALSE

\* `if not i: raise`
LastTry(k) == k = 0

\* Variant: the retry follows at once, the sleep(.05) is left out.
UsbCommandExcept_NoSleep ==
    /\ pc = "run"
    /\ trace' = Sent
    /\ attempts' = attempts + 1
    /\ fails' = fails + 1
    /\ claimed' = TRUE
    /\ reply' = None
    /\ value' = None
    /\ IF LastTry(i)
       THEN /\ err' = USBError
            /\ pc' = "finally"
            /\ res' = EmptyMap
            /\ outcome' = "raised"
            /\ UNCHANGED <<i, sleeps>>
       ELSE /\ i' = i - 1
            /\ outcome' = "retry"
            /\ UNCHANGED <<err, pc, res, sleeps>>
    /\ total' = Metered(total)
    /\ UNCHANGED <<devVars, callVars, autodispose, hw, op, arg, todo, phase,
                   serialRet, releases, reported, ext>>

\* Variant: in a loop over the outlets the error of the last try is noted
\* and the loop goes on with the next outlet.
UsbCommandExcept_SkipOutlet ==
    /\ pc = "run"
    /\ trace' = Sent
    /\ claimed' = TRUE
    /\ reply' = None
    /\ value' = None
    /\ IF LastTry(i)
       THEN /\ err' = USBError
            /\ res' = EmptyMap
            /\ outcome' = "raised"
            /\ IF Len(todo) > 1
               THEN /\ todo' = Tail(todo)
                    /\ phase' = FirstPhase(op)
                    /\ BeginCmd
                    /\ UNCHANGED pc
               ELSE /\ pc' = "finally"
                    /\ attempts' = attempts + 1
                    /\ fails' = fails + 1
                    /\ UNCHANGED <<i, sleeps, todo, phase>>
       ELSE /\ sleeps' = sleeps + 1
            /\ i' = i - 1
            /\ attempts' = attempts + 1
            /\ fails' = fails + 1
            /\ outcome' = "retry"
            /\ UNCHANGED <<err, pc, res, todo, phase>>
    /\ total' = Metered(total)
    /\ UNCHANGED <<devVars, callVars, autodispose, hw, op, arg, serialRet,
                   releases, reported, ext>>

\* One ctrl_transfer attempt that raises USBError: re-raised on the last
\* try, otherwise followed by sleep(.05) and the next try.
UsbCommandExcept ==
    /\ pc = "run"
    /\ trace' = Sent
    /\ attempts' = attempts + 1
    /\ fails' = fails + 1
    /\ claimed' = TRUE
    /\ reply' = None
    /\ value' = None
    /\ IF LastTry(i)
       THEN /\ err' = USBError
            /\ pc' = "finally"
            /\ res' = EmptyMap
            /\ outcome' = "raised"
            /\ UNCHANGED <<i, sleeps>>
       ELSE /\ sleeps' = sleeps + 1
            /\ i' = i - 1
            /\ outcome' = "retry"
            /\ UNCHANGED <<err, pc, res>>
    /\ total' = Metered(total)
    /\ UNCHANGED <<devVars, callVars, autodispose, hw, op, arg, todo, phase,
                   serialRet, releases, reported, ext>>

\* Variant: the release sits after the body instead of in a finally clause,
\* so an exception of the body skips it.
Finally_SkipOnError ==
    /\ pc = "finally"
    /\ pc' = "done"
    /\ IF autodispose /\ err.kind = "none"
       THEN /\ releases' = releases + 1
            /\ \E released \in BOOLEAN :
                  /\ claimed' = IF released THEN FALSE ELSE claimed
                  /\ relErr' = IF released THEN "none" ELSE "USBError"
       ELSE /\ relErr' = "none"
            /\ UNCHANGED <<releases, claimed>>
    /\ serialStr' = IF op = "serial" /\ err = NoErr
                    THEN SerialString(serialRet) ELSE ""
    /\ UNCHANGED <<devVars, autodispose, hw, op, arg, todo, phase, cmdVars,
                   res, serialRet, err, trace, reported, ext, total,
                   entryClaimed>>

\* Variant: the release does not look at self.autodispose.
Finally_Always ==
    /\ pc = "finally"
    /\ pc' = "done"
    /\ releases' = releases + 1
    /\ \E released \in BOOLEAN :
          /\ claimed' = IF released THEN FALSE ELSE claimed
          /\ relErr' = IF released THEN "none" ELSE "USBError"
    /\ serialStr' = IF op = "serial" /\ err = NoErr
                    THEN SerialString(serialRet) ELSE ""
    /\ UNCHANGED <<devVars, autodispose, hw, op, arg, todo, phase, cmdVars,
                   res, serialRet, err, trace, reported, ext, total,
                   entryClaimed>>

\* Variant: a USBError of the release is not caught and replaces the outcome
\* of the body.
Finally_RaiseRelease ==
    /\ pc = "finally"
    /\ pc' = "done"
    /\ IF autodispose
       THEN /\ releases' = releases + 1
            /\ \E released \in BOOLEAN :
                  /\ claimed' = IF released THEN FALSE ELSE claimed
                  /\ relErr' = IF released THEN "none" ELSE "USBError"
                  /\ err' = IF released THEN err ELSE USBError
                  /\ res' = IF released THEN res ELSE EmptyMap
       ELSE /\ relErr' = "none"
            /\ UNCHANGED <<releases, claimed, err, res>>
    /\ serialStr' = IF op = "serial" /\ err' = NoErr
                    THEN SerialString(serialRet) ELSE ""
    /\ UNCHANGED <<devVars, autodispose, hw, op, arg, todo, phase, cmdVars,
                   serialRet, trace, reported, ext, total, entryClaimed>>

\* The finally clause of the autodispose wrapper: release the device when
\* self.autodispose is set, swallowing a USBError of the release; then the
\* result is returned or the exception of the body goes on to the caller.
Finally ==
    /\ pc = "finally"
    /\ pc' = "done"
    /\ IF autodispose
       THEN /\ releases' = releases + 1
            /\ \E released \in BOOLEAN :
                  /\ claimed' = IF released THEN FALSE ELSE claimed
                  /\ relErr' = IF released THEN "none" ELSE "USBError"
       ELSE /\ relErr' = "none"
            /\ UNCHANGED <<releases, claimed>>
    /\ serialStr' = IF op = "serial" /\ err = NoErr
                    THEN SerialString(serialRet) ELSE ""
    /\ UNCHANGED <<devVars, autodispose, hw, op, arg, todo, phase, cmdVars,
                   res, serialRet, err, trace, reported, ext, total,
                   entryClaimed>>

\* dispose(): not wrapped, one dispose_resources call whose USBError
\* reaches the caller.
dispose ==
    /\ pc = "idle"
    /\ op' = "dispose"
    /\ arg' = NoArg
    /\ ResetCall
    /\ entryClaimed' = "-"
    /\ FreshCmd
    /\ todo' = <<>>
    /\ phase' = "none"
    /\ pc' = "done"
    /\ releases' = 1
    /\ \E released \in BOOLEAN :
          /\ claimed' = IF released THEN FALSE ELSE claimed
          /\ err' = IF released THEN NoErr ELSE USBError
    /\ UNCHANGED <<devVars, autodispose, hw>>

\* `return result`, or the exception reaching the caller: the call is over
\* and the session waits for the next one.
Return ==
    /\ pc = "done"
    /\ pc' = "idle"
    /\ op' = "none"
    /\ arg' = NoArg
    /\ todo' = <<>>
    /\ phase' = "none"
    /\ i' = 0
    /\ attempts' = 0
    /\ sleeps' = 0
    /\ fails' = 0
    /\ outcome' = "none"
    /\ reply' = None
    /\ value' = None
    /\ res' = EmptyMap
    /\ serialRet' = <<>>
    /\ err' = NoErr
    /\ releases' = 0
    /\ trace' = <<>>
    /\ reported' = <<>>
    /\ ext' = 0
    /\ relErr' = "none"
    /\ serialStr' = ""
    /\ total' = 0
    /\ entryClaimed' = "-"
    /\ UNCHANGED <<devVars, autodispose, claimed, hw>>

\* The caller assigns the public attribute autodispose between calls.
SetAutodispose ==
    /\ pc = "idle"
    /\ autodispose' = ~autodispose
    /\ UNCHANGED <<devVars, callVars, claimed, hw, pc, op, arg, todo, phase,
                   cmdVars, res, serialRet, err, releases, trace, reported,
                   ext, total>>

\* The call in progress addresses outlet n.
Addresses(n) == IF arg.tag = "int" THEN arg.n = n ELSE TRUE

\* Another process, or the button on the device, switches outlet n.
ExternalChange ==
    /\ pc # "done"
    /\ \E n \in DOMAIN hw :
          /\ hw' = [hw EXCEPT ![n] = ~hw[n]]
          /\ IF pc \in {"run", "finally"} /\ Addresses(n)
             THEN ext < MaxExternal /\ ext' = ext + 1
             ELSE ext' = ext
    /\ UNCHANGED <<devVars, callVars, autodispose, claimed, pc, op, arg, todo,
                   phase, cmdVars, res, serialRet, err, releases, trace,
                   reported, total>>

Next ==
    \/ \E v \in Args : status(v)
    \/ \E v \in Args : on(v)
    \/ \E v \in Args : off(v)
    \/ \E v \in Args : Toggle(v)
    \/ serial
    \/ dispose
    \/ SetAutodispose
    \/ UsbCommandReturn
    \/ UsbCommandExcept
    \/ Finally
    \/ Return
    \/ ExternalChange

Spec == Init /\ [][Next]_vars


\* --------------------------------------------------- get_device_by_serial
\* Longest bus the lookup is checked on.
MaxBus == 3

\* Devices that may sit on the bus: two outlets of accepted products, a
\* device of the vendor with a product id the table does not know, and a
\* device of another vendor.
Pool ==
    { [vendor |-> VENDOR, product |-> SISPM,
       serial |-> <<26, 2, 255, 0, 11, 156>>],
      [vendor |-> VENDOR, product |-> MSISPM_OLD,
       serial |-> <<0, 9, 10, 15, 16, 255>>],
      [vendor |-> VENDOR, product |-> MSISPM_FLASH_NEW + 1,
       serial |-> <<26, 2, 255, 0, 11, 156>>],
      [vendor |-> VENDOR + 1, product |-> SISPM,
       serial |-> <<26, 2, 255, 0, 11, 156>>] }

Buses == UNION {[1..n -> Pool] : n \in 0..MaxBus}

\* Strings a caller may look for: the serials of the pool, one of them in
\* upper case and without the padding, and one no device has.
Wanted == {"1a:02:ff:00:0b:9c", "00:09:0a:0f:10:ff", "1A:02:FF:00:0B:9C",
           "1a:2:ff:0:b:9c"}

\* Values a caller may pass as `products`: the default tuple or its own.
ProductChoices == {Products, {SISPM}}

\* What the lookup has done to a device of the bus.
Untouched == [claims |-> 0, transfers |-> 0, releases |-> 0,
              relFailed |-> FALSE, claimed |-> FALSE]

\* No call has been made on the session.
NoCall ==
    /\ op = "none"
    /\ arg = NoArg
    /\ todo = <<>>
    /\ phase = "none"
    /\ i = 0
    /\ attempts = 0
    /\ sleeps = 0
    /\ fails = 0
    /\ outcome = "none"
    /\ reply = None
    /\ value = None
    /\ res = EmptyMap
    /\ serialRet = <<>>
    /\ err = NoErr
    /\ releases = 0
    /\ trace = <<>>
    /\ reported = <<>>
    /\ ext = 0
    /\ relErr = "none"
    /\ serialStr = ""
    /\ total = 0
    /\ entryClaimed = "-"

\* No session object yet: the state before the lookup.
InitScan ==
    /\ bus \in Buses
    /\ scan = NoScan
    /\ pc = "none"
    /\ product = SISPM
    /\ devSerial = <<>>
    /\ hw = [n \in Range(outlets(SISPM)) |-> FALSE]
    /\ autodispose = TRUE
    /\ claimed = FALSE
    /\ NoCall
    /\ metered = "none"

sessionVars == <<product, autodispose, claimed, hw, devSerial, op, arg, todo,
                 phase, cmdVars, res, serialRet, err, releases, trace,
                 reported, ext, callVars, total>>

\* get_device_by_serial(serial, products) is called.
ScanStart(w, ps) ==
    /\ scan.pc = "none"
    /\ pc = "none"
    /\ scan' = [pc |-> "scan", wanted |-> w, products |-> ps, pos |-> 0,
                found |-> 0, err |-> "none", order |-> <<>>,
                dev |-> [k \in DOMAIN bus |-> Untouched]]
    /\ UNCHANGED <<sessionVars, pc, metered, bus>>

\* Positions after `after` that find(idVendor=VENDOR, find_all=True) yields
\* and whose idProduct is in products.
Candidates(ps, after) ==
    {k \in DOMAIN bus : /\ k > after
                        /\ bus[k].vendor = VENDOR
                        /\ bus[k].product \in ps}

Min(S) == CHOOSE k \in S : \A m \in S : k <= m

\* OutletDevice(device) of the candidate at position k.
Create(k, auto) ==
    /\ scan' = [scan EXCEPT !.pos = k,
                            !.order = Append(@, k),
                            !.dev[k] = [@ EXCEPT !.claims = @ + 1,
                                                 !.claimed = TRUE]]
    /\ product' = bus[k].product
    /\ devSerial' = bus[k].serial
    /\ hw' = [n \in Range(outlets(bus[k].product)) |-> FALSE]
    /\ autodispose' = auto
    /\ claimed' = TRUE
    /\ pc' = "idle"
    /\ UNCHANGED <<op, arg, todo, phase, cmdVars, res, serialRet, err,
                   releases, trace, reported, ext, callVars, total, metered,
                   bus>>

\* Variant: the sessions are created with auto-release off.
ScanNext_Occupy ==
    /\ scan.pc = "scan"
    /\ pc = "none"
    /\ LET c == Candidates(scan.products, scan.pos)
       IN  IF c = {}
           THEN /\ scan' = [scan EXCEPT !.pc = "returned", !.found = 0,
                                        !.pos = Len(bus)]
                /\ UNCHANGED <<sessionVars, pc, metered, bus>>
           ELSE Create(Min(c), FALSE)

\* The loop of get_device_by_serial asks the generator get_devices for the
\* next session: the next device of the vendor with an accepted product is
\* wrapped in a session, or the generator is exhausted and the function
\* falls off its end, returning None.
ScanNext ==
    /\ scan.pc = "scan"
    /\ pc = "none"
    /\ LET c == Candidates(scan.products, scan.pos)
       IN  IF c = {}
           THEN /\ scan' = [scan EXCEPT !.pc = "returned", !.found = 0,
                                        !.pos = Len(bus)]
                /\ UNCHANGED <<sessionVars, pc, metered, bus>>
           ELSE Create(Min(c), TRUE)

\* What the serial read of the candidate did to its device.
Examined ==
    [scan.dev[scan.pos] EXCEPT !.transfers = Len(trace),
                               !.releases = releases,
                               !.relFailed = (relErr = "USBError"),
                               !.claimed = claimed]

\* Variant: a match is remembered and the loop goes on to the end of the
\* bus.
ScanCompare_KeepLooking ==
    /\ scan.pc = "scan"
    /\ pc = "done"
    /\ op = "serial"
    /\ IF err # NoErr
       THEN /\ scan' = [scan EXCEPT !.pc = "raised", !.err = err.kind,
                                    !.dev[scan.pos] = Examined]
            /\ pc' = "none"
       ELSE /\ scan' = [scan EXCEPT !.found = IF serialStr = scan.wanted
                                              THEN scan.pos ELSE @,
                                    !.dev[scan.pos] = Examined]
            /\ pc' = "none"
    /\ UNCHANGED <<sessionVars, metered, bus>>

\* `if device.serial == serial: return device` once the serial property is
\* over: its exception leaves the function, a match returns the session, a
\* mismatch goes on with the loop.
ScanCompare ==
    /\ scan.pc = "scan"
    /\ pc = "done"
    /\ op = "serial"
    /\ IF err # NoErr
       THEN /\ scan' = [scan EXCEPT !.pc = "raised", !.err = err.kind,
                                    !.dev[scan.pos] = Examined]
            /\ pc' = "none"
       ELSE IF serialStr = scan.wanted
       THEN /\ scan' = [scan EXCEPT !.pc = "returned", !.found = scan.pos,
                                    !.dev[scan.pos] = Examined]
            /\ pc' = "idle"
       ELSE /\ scan' = [scan EXCEPT !.dev[scan.pos] = Examined]
            /\ pc' = "none"
    /\ UNCHANGED <<sessionVars, metered, bus>>

\* The serial property of the candidate just created.
ScanSerial == scan.pc = "scan" /\ serial

NextScan ==
    \/ \E w \in Wanted, ps \in ProductChoices : ScanStart(w, ps)
    \/ ScanNext
    \/ ScanSerial
    \/ UsbCommandReturn
    \/ UsbCommandExcept
    \/ Finally
    \/ ScanCompare

SpecScan == InitScan /\ [][NextScan]_vars


\* ------------------------------------------------------ the serial property
Byte == 0 .. 255

\* Serials the formatting is checked on: the example of the documentation
\* and, at every position, every byte value among bytes all 0 or all 255.
SerialInputs ==
    {<<26, 2, 255, 0, 11, 156>>} \cup
    {[k \in DOMAIN bytearray6 |-> IF k = p THEN b ELSE c] :
        p \in DOMAIN bytearray6, b \in Byte, c \in {0, 255}}

\* A session of a device with one of these serials.
InitSerial ==
    /\ product = SISPM
    /\ devSerial \in SerialInputs
    /\ hw = [n \in Range(outlets(SISPM)) |-> FALSE]
    /\ autodispose = TRUE
    /\ claimed = TRUE
    /\ pc = "idle"
    /\ NoCall
    /\ metered = "none"
    /\ bus = <<>>
    /\ scan = NoScan

NextSerial ==
    \/ serial
    \/ UsbCommandReturn
    \/ UsbCommandExcept
    \/ Finally
    \/ Return

SpecSerial == InitSerial /\ [][NextSerial]_vars


\* ------------------------------------------------------- the metered session
\* The session with the meter of the claim state switched on: every call
\* notes whether it found the device claimed or released.  Nobody else is at
\* the switches of the device.
InitClaim ==
    /\ product \in Products
    /\ devSerial \in SerialSamples
    /\ hw = [n \in Range(outlets(product)) |-> FALSE]
    /\ autodispose = TRUE
    /\ claimed = TRUE
    /\ pc = "idle"
    /\ NoCall
    /\ metered = "claim"
    /\ bus = <<>>
    /\ scan = NoScan

NextClaim ==
    \/ \E v \in Args : status(v)
    \/ \E v \in Args : on(v)
    \/ \E v \in Args : off(v)
    \/ \E v \in Args : Toggle(v)
    \/ serial
    \/ dispose
    \/ SetAutodispose
    \/ UsbCommandReturn
    \/ UsbCommandExcept
    \/ Finally
    \/ Return

SpecClaim == InitClaim /\ [][NextClaim]_vars

\* The session with the meter of the ctrl_transfer calls switched on, about
\* to make one call: a one-outlet or a four-outlet device, its outlets all
\* off or all on, claimed or released by an earlier call.
InitMeter ==
    /\ product \in {MSISPM_OLD, SISPM}
    /\ devSerial \in SerialSamples
    /\ \E b \in BOOLEAN : hw = [n \in Range(outlets(product)) |-> b]
    /\ autodispose = TRUE
    /\ claimed \in BOOLEAN
    /\ pc = "idle"
    /\ NoCall
    /\ metered = "attempts"
    /\ bus = <<>>
    /\ scan = NoScan

NextMeter ==
    \/ \E v \in Args : status(v)
    \/ \E v \in Args : on(v)
    \/ \E v \in Args : off(v)
    \/ \E v \in Args : Toggle(v)
    \/ serial
    \/ UsbCommandReturn
    \/ UsbCommandExcept
    \/ Finally

\* A ctrl_transfer returns or raises within its timeout, and the wrapper
\* goes through its finally clause: a call under way takes its next step.
SpecMeter ==
    /\ InitMeter
    /\ [][NextMeter]_vars
    /\ WF_vars(UsbCommandReturn \/ UsbCommandExcept)
    /\ WF_vars(Finally)


\* ------------------------------------------------------------------ claims
WrappedOps == {"status", "on", "off", "toggle", "serial"}
OutletOps == {"status", "on", "off", "toggle"}
Over == pc \in {"finally", "done"}

\* The outlet numbers of the device, read from the table.
OutletSet == {DEVICE_TYPES[product][1][k] : k \in DOMAIN DEVICE_TYPES[product][1]}
Single == arg.tag = "int" /\ arg.n \in OutletSet
All == arg = StrArg("all")
Illegal == ~Single /\ ~All

\* C1: status, on, off and toggle called with a value that is neither an
\* outlet of the device nor 'all' fail with the illegal-outlet error carrying
\* that value, and not one control transfer is attempted during the call.
Thm_C1 ==
    (op \in OutletOps /\ Illegal) =>
        /\ pc # "run"
        /\ err = [kind |-> "OutletException", outlet |-> arg]
        /\ trace = <<>>
        /\ attempts = 0
        /\ outcome = "none"

\* An outlet number that only the four-outlet devices have, given to a
\* single-outlet device, was rejected.
Wit_C1 ==
    /\ pc = "done"
    /\ op = "toggle"
    /\ product = MSISPM_OLD
    /\ arg = IntArg(3)
    /\ err.kind = "OutletException"

\* C2: a transfer that fails k times (k in 0..4) and then succeeds makes
\* _usb_command return the value of that success after k+1 attempts and k
\* delays; a call made of one transfer makes no attempt after it.
Thm_C2 ==
    (Over /\ outcome = "ok") =>
        /\ fails \in 0..4
        /\ attempts = fails + 1
        /\ sleeps = fails
        /\ value = reply
        /\ value # None
        /\ (op = "serial" \/ (op = "status" /\ Single)) => Len(trace) = 1

\* Four failures, then the success of the fifth attempt.
Wit_C2 ==
    /\ pc = "done"
    /\ op = "status"
    /\ Single
    /\ outcome = "ok"
    /\ fails = 4
    /\ attempts = 5
    /\ err = NoErr

\* C3: five consecutive transport errors make _usb_command raise the error
\* of the fifth attempt to its caller after exactly 5 attempts and 4 delays;
\* there is never a sixth attempt.
Thm_C3 ==
    /\ attempts <= 5
    /\ outcome = "raised" =>
          /\ Over
          /\ attempts = 5
          /\ fails = 5
          /\ sleeps = 4
          /\ err = USBError
    /\ (err = USBError /\ op \in WrappedOps) => outcome = "raised"

\* A call that ended with the transport error.
Wit_C3 ==
    /\ pc = "done"
    /\ op = "on"
    /\ outcome = "raised"
    /\ err = USBError

\* C4: with auto-release on, a wrapped call (status, on, off, toggle, the
\* serial read) has released the device exactly once when it is over, and
\* not before its last transfer attempt, whether it returns, raises the
\* illegal-outlet error or raises the transport error.
Thm_C4 ==
    (autodispose /\ op \in WrappedOps) =>
        /\ pc \in {"run", "finally"} => releases = 0
        /\ pc = "done" => releases = 1

\* An 'all' call that ran out of retries and still released once.
Wit_C4 ==
    /\ autodispose
    /\ pc = "done"
    /\ op = "toggle"
    /\ All
    /\ err = USBError
    /\ trace # <<>>
    /\ releases = 1

\* C5: with auto-release off no wrapped call releases the device, however
\* it ends; only dispose() does, once per call.
Thm_C5 ==
    /\ (~autodispose /\ op \in WrappedOps) => releases = 0
    /\ op = "dispose" => releases = 1
    /\ op = "none" => releases = 0

\* A failed call with auto-release off that left the device claimed.
Wit_C5 ==
    /\ ~autodispose
    /\ pc = "done"
    /\ op = "off"
    /\ err = USBError
    /\ releases = 0
    /\ claimed


\* The outlet of a single-outlet call.
N == arg.n

\* C6: on(n) whose status read reports on returns True without any write,
\* no transfer follows that read; off(n) whose status read reports off
\* likewise.
Thm_C6 ==
    (op \in {"on", "off"} /\ Single /\ reported # <<>>
       /\ reported[1] = (op = "on")) =>
        /\ Over
        /\ err = NoErr
        /\ trace = <<StatusRequest(N)>>
        /\ \A k \in DOMAIN trace : ~IsWrite(trace[k])
        /\ DOMAIN res = {N}
        /\ res[N] = TRUE

\* off(n) on an outlet that is off returned True after its one read.
Wit_C6 ==
    /\ pc = "done"
    /\ op = "off"
    /\ Single
    /\ reported = <<FALSE>>
    /\ res[N] = TRUE
    /\ Len(trace) = 1

\* C7: once on(n) or off(n) has sent its write and the confirming status
\* read has come back, the call returns without error the confirming read
\* for on and its negation for off: False when the outlet did not follow.
Thm_C7 ==
    (op \in {"on", "off"} /\ Single /\ Len(reported) = 2) =>
        /\ Over
        /\ err = NoErr
        /\ Len(trace) = 3
        /\ IsWrite(trace[2])
        /\ DOMAIN res = {N}
        /\ res[N] = IF op = "on" THEN reported[2] ELSE ~reported[2]

\* The write of on(n) went through, the outlet still reads off: False.
Wit_C7 ==
    /\ pc = "done"
    /\ op = "on"
    /\ Single
    /\ reported = <<FALSE, FALSE>>
    /\ IsWrite(trace[2])
    /\ res[N] = FALSE
    /\ err = NoErr

\* C8: toggle(n) reads the status once, then runs off(n) if that read
\* reported on and on(n) otherwise; the branch target reads the status
\* itself before any write.  When no transfer runs out of retries and
\* nothing but this session switches the outlet, the transfers are: status
\* read, status read, write, status read.
Thm_C8 ==
    (op = "toggle" /\ Single) =>
        /\ Len(trace) >= 1 => trace[1] = StatusRequest(N)
        /\ Len(trace) >= 2 => trace[2] = StatusRequest(N)
        /\ Len(trace) >= 3 =>
              /\ reported[2] = reported[1]
              /\ trace[3] = WriteRequest(N, ~reported[1])
        /\ Len(trace) >= 4 => trace[4] = StatusRequest(N)
        /\ (Over /\ err = NoErr /\ Len(trace) = 2) =>
              /\ reported[2] # reported[1]
              /\ res[N] = TRUE
        /\ (Over /\ err = NoErr /\ ext = 0) =>
              trace = <<StatusRequest(N), StatusRequest(N),
                        WriteRequest(N, ~reported[1]), StatusRequest(N)>>

\* A toggle of an outlet nobody else touched, complete.
Wit_C8 ==
    /\ pc = "done"
    /\ op = "toggle"
    /\ Single
    /\ err = NoErr
    /\ ext = 0
    /\ Len(trace) = 4
    /\ reported[1] = TRUE

\* C9: status('all') that meets no transport error returns a mapping whose
\* keys are the outlets of the device, {1,2,3,4} or {1}, each value read by
\* a status read of its own, the reads going in the order of the tuple.
Thm_C9 ==
    (op = "status" /\ All /\ Over /\ err = NoErr) =>
        /\ DOMAIN res = IF product \in {SISPM, MSISPM_FLASH_NEW}
                        THEN {1, 2, 3, 4} ELSE {1}
        /\ DOMAIN res = OutletSet
        /\ Len(trace) = Len(outlets(product))
        /\ Len(reported) = Len(trace)
        /\ \A k \in DOMAIN trace :
              /\ trace[k] = StatusRequest(outlets(product)[k])
              /\ res[outlets(product)[k]] = reported[k]

\* A four-outlet device answered status('all') with mixed states.
Wit_C9 ==
    /\ pc = "done"
    /\ op = "status"
    /\ All
    /\ product = SISPM
    /\ err = NoErr
    /\ DOMAIN res = {1, 2, 3, 4}
    /\ res[1] /\ ~res[2] /\ res[3] /\ ~res[4]

\* C10: in on('all'), off('all') and toggle('all') an outlet whose
\* confirmation fails (False) does not stop the loop: the outlets after it
\* are processed and the mapping returned has an entry for every outlet.
Thm_C10 ==
    (op \in {"on", "off", "toggle"} /\ All /\ err = NoErr) =>
        /\ DOMAIN res \cup Range(todo) = OutletSet
        /\ pc = "run" => todo # <<>>
        /\ Over =>
              /\ todo = <<>>
              /\ DOMAIN res = OutletSet
              /\ \A n \in OutletSet :
                    \E k \in DOMAIN trace : Addressed(trace[k]) = n

\* The first outlet of four failed to confirm, the other three were done.
Wit_C10 ==
    /\ pc = "done"
    /\ op = "on"
    /\ All
    /\ product = MSISPM_FLASH_NEW
    /\ err = NoErr
    /\ DOMAIN res = {1, 2, 3, 4}
    /\ ~res[1]
    /\ res[2] /\ res[3] /\ res[4]
    /\ \E k \in DOMAIN trace : IsWrite(trace[k]) /\ Addressed(trace[k]) = 4

\* C11: with auto-release on, a release that fails leaves the outcome of the
\* public call as the body produced it: the result and the error the caller
\* gets are those of the body (a transport error only from an exhausted
\* transfer, the illegal-outlet error only for an illegal outlet), and the
\* failure of the release is not raised.
Thm_C11 ==
    [][(pc = "finally" /\ pc' = "done" /\ relErr' = "USBError") =>
          /\ autodispose
          /\ op \in WrappedOps
          /\ err' = err
          /\ res' = res
          /\ serialRet' = serialRet
          /\ (err'.kind = "USBError") <=> (outcome' = "raised")
          /\ (err'.kind = "OutletException") <=> (op \in OutletOps /\ Illegal)
      ]_vars

\* on(n) returned its confirmation although the release after it failed.
Wit_C11 ==
    /\ pc = "done"
    /\ autodispose
    /\ relErr = "USBError"
    /\ claimed
    /\ op = "on"
    /\ Single
    /\ err = NoErr
    /\ DOMAIN res = {N}
    /\ res[N]

\* The serial strings of the devices of the pool, written out by hand.
SerialText(bytes) ==
    IF bytes = <<26, 2, 255, 0, 11, 156>> THEN "1a:02:ff:00:0b:9c"
    ELSE "00:09:0a:0f:10:ff"

\* The accepted devices of the bus whose serial is the one looked for.
Matches ==
    {k \in Candidates(scan.products, 0) :
        SerialText(bus[k].serial) = scan.wanted}

\* C12: get_device_by_serial reads the serials of the accepted devices in the
\* order of the enumeration and returns the session of the first one whose
\* serial string is exactly the input; when none matches, on an empty bus
\* too, it returns None and raises nothing.
Thm_C12 ==
    /\ \A a, b \in DOMAIN scan.order : a < b => scan.order[a] < scan.order[b]
    /\ Range(scan.order) =
          {k \in Candidates(scan.products, 0) : k <= scan.pos}
    /\ \A k \in Range(scan.order) :
          k < scan.pos => SerialText(bus[k].serial) # scan.wanted
    /\ scan.pc = "returned" =>
          /\ scan.err = "none"
          /\ scan.found = IF Matches = {} THEN 0 ELSE Min(Matches)
          /\ scan.found # 0 =>
                /\ pc = "idle"
                /\ devSerial = bus[scan.found].serial
                /\ product = bus[scan.found].product
                /\ serialStr = scan.wanted
    /\ (scan.pc = "scan" /\ bus = <<>>) => pc = "none"

\* The second of three devices was returned: the first was read and did not
\* match, the third has the serial looked for as well.
Wit_C12 ==
    /\ scan.pc = "returned"
    /\ Len(bus) = 3
    /\ scan.order = <<1, 2>>
    /\ scan.found = 2
    /\ SerialText(bus[1].serial) # scan.wanted
    /\ bus[3] = bus[2]

\* The two lowercase hexadecimal digits of a byte, from its two halves.
TwoHex(b) ==
    LET d == <<"0", "1", "2", "3", "4", "5", "6", "7",
               "8", "9", "a", "b", "c", "d", "e", "f">>
    IN  d[(b \div 16) + 1] \o d[(b % 16) + 1]

WritesTo(m) == {j \in DOMAIN trace : IsWrite(trace[j]) /\ Addressed(trace[j]) = m}

\* C15: when a transfer of on('all'), off('all') or toggle('all') has used
\* up its 5 attempts at outlet k the call is over with the transport error
\* and without a result: nothing was sent for the outlets after k, the
\* transfers went through the outlets in their order and never back to an
\* earlier one, no outlet was written twice or against the direction of the
\* call, and the failed transfer was tried 5 times and no more.
Thm_C15 ==
    (op \in {"on", "off", "toggle"} /\ All /\ err = USBError) =>
        /\ Over
        /\ outcome = "raised"
        /\ attempts = 5
        /\ fails = 5
        /\ res = EmptyMap
        /\ todo # <<>>
        /\ trace # <<>>
        /\ trace[Len(trace)] = CurrentRequest
        /\ Addressed(trace[Len(trace)]) = Head(todo)
        /\ \A j \in DOMAIN trace : Addressed(trace[j]) \notin Range(Tail(todo))
        /\ \A a, b \in DOMAIN trace :
              a < b => Addressed(trace[a]) <= Addressed(trace[b])
        /\ \A m \in OutletSet : Cardinality(WritesTo(m)) <= 1
        /\ \A j \in DOMAIN trace :
              IsWrite(trace[j]) =>
                 /\ op = "on" => trace[j] = WriteRequest(Addressed(trace[j]), TRUE)
                 /\ op = "off" => trace[j] = WriteRequest(Addressed(trace[j]), FALSE)

\* on('all') failed at the third of four outlets: the first two were
\* switched on and are on, the third and the fourth were not written.
Wit_C15 ==
    /\ pc = "done"
    /\ op = "on"
    /\ All
    /\ product = SISPM
    /\ err = USBError
    /\ Head(todo) = 3
    /\ WritesTo(1) # {}
    /\ WritesTo(2) # {}
    /\ WritesTo(3) = {}
    /\ WritesTo(4) = {}
    /\ hw[1] /\ hw[2] /\ ~hw[3] /\ ~hw[4]
    /\ ext = 0

\* The most transfers the body makes for one outlet: _status is one, _on and
\* _off are a status read, a write and a status read, toggle is a status
\* read and then _on or _off.
TransfersPerOutlet ==
    CASE op = "status" -> 1
      [] op = "on"     -> 3
      [] op = "off"    -> 3
      [] op = "toggle" -> 4
      [] OTHER         -> 1

\* The outlets the call goes through.
OutletCount ==
    IF op \in OutletOps /\ All THEN Len(outlets(product))
    ELSE IF op \in OutletOps /\ Illegal THEN 0
    ELSE 1

\* C16: every public call comes to its end whatever transfers fail, and no
\* call makes more ctrl_transfer attempts than 5 for each of its transfers:
\* 5 for status(n), 15 for on(n) and off(n), 20 for toggle(n), and for 'all'
\* that many for each outlet of the device.
Thm_C16 ==
    /\ [](/\ total <= TRIES * TransfersPerOutlet * OutletCount
          /\ (op = "status" /\ Single) => total <= 5
          /\ (op \in {"on", "off"} /\ Single) => total <= 15
          /\ (op = "toggle" /\ Single) => total <= 20
          /\ (op = "status" /\ All) => total <= 5 * Len(outlets(product))
          /\ (op \in {"on", "off"} /\ All) => total <= 15 * Len(outlets(product))
          /\ (op = "toggle" /\ All) => total <= 20 * Len(outlets(product))
          /\ (op = "serial") => total <= 5
          /\ attempts <= TRIES
          /\ Len(trace) <= TransfersPerOutlet * OutletCount)
    /\ (pc = "run") ~> (pc = "done")

\* toggle('all') on four outlets that needed all of its 80 attempts and
\* returned.
Wit_C16 ==
    /\ pc = "done"
    /\ op = "toggle"
    /\ All
    /\ product = SISPM
    /\ total = 80
    /\ err = NoErr

\* C17: as long as nobody but the session switches outlet n during the call
\* (a write of the session takes effect or changes nothing), on(n) that
\* returns True leaves the outlet on, off(n) that returns True leaves it
\* off, and toggle(n) returns True exactly when the outlet ends in the
\* state opposite to the one the call found it in.
Thm_C17 ==
    (op \in {"on", "off", "toggle"} /\ Single /\ pc = "done" /\ err = NoErr
       /\ ext = 0) =>
        /\ DOMAIN res = {N}
        /\ reported # <<>>
        /\ op = "on" => (res[N] => hw[N])
        /\ op = "off" => (res[N] => ~hw[N])
        /\ op = "toggle" => (res[N] <=> (hw[N] = ~reported[1]))

\* toggle(n) found the outlet on, its write was ignored by the device, and
\* it returned False with the outlet still on.
Wit_C17 ==
    /\ op = "toggle"
    /\ Single
    /\ pc = "done"
    /\ err = NoErr
    /\ ext = 0
    /\ reported[1]
    /\ \E j \in DOMAIN trace : IsWrite(trace[j])
    /\ ~res[N]
    /\ hw[N]

\* The transfers of a single-outlet call all carry v as value and b as the
\* first byte of the buffer.
Carries(v, b) ==
    (op \in OutletOps /\ Single) =>
        \A j \in DOMAIN trace : trace[j].value = v /\ trace[j].bytes[1] = b

\* C18 as it is written: value and buffer byte 0 equal 3*n.
Orig_C18 == Carries(3 * N, 3 * N)

\* A step of the session, not of somebody else at the switches.
SessionStep == <<pc, phase, attempts, outcome, trace>>' # <<pc, phase, attempts, outcome, trace>>

\* C18: status, for one outlet or 'all', and the serial read send no write;
\* every transfer of status(n), on(n), off(n) and toggle(n) addresses outlet
\* n alone: the first byte of the buffer is 3*n and the value is 0x0300 + 3*n,
\* 3*n being its low byte; no step of such a call changes the state of
\* another outlet.
Thm_C18 ==
    /\ [](/\ op \in {"status", "serial"} =>
                \A j \in DOMAIN trace : ~IsWrite(trace[j])
          /\ op = "serial" => \A j \in DOMAIN trace : trace[j] = SerialRequest
          /\ (op = "status" /\ Single) =>
                \A j \in DOMAIN trace : trace[j] = StatusRequest(N)
          /\ (op \in OutletOps /\ Single) =>
                \A j \in DOMAIN trace : /\ Addressed(trace[j]) = N
                                        /\ trace[j].value % 256 = 3 * N
          /\ Carries(768 + 3 * N, 3 * N))
    /\ [][(op \in OutletOps /\ Single /\ pc \in {"run", "finally"}
            /\ SessionStep) =>
              \A m \in DOMAIN hw \ {N} : hw'[m] = hw[m]]_vars

\* on(2) on a four-outlet device: status read, write, status read, each with
\* value 0x0306 and 6 in the first byte of the buffer.
Wit_C18 ==
    /\ op = "on"
    /\ Single
    /\ N = 2
    /\ product = SISPM
    /\ pc = "done"
    /\ err = NoErr
    /\ Len(trace) = 3
    /\ IsWrite(trace[2])
    /\ trace[2].value = 774
    /\ trace[2].bytes[1] = 6
    /\ hw[2]

\* The devices the lookup is through with: those before the one at hand,
\* and that one too once the lookup is over.
Done(k) ==
    /\ k \in Range(scan.order)
    /\ k < scan.pos \/ scan.pc \in {"returned", "raised"}

\* C19 as it is written: the lookup leaves no device claimed.
Orig_C19 ==
    \A k \in DOMAIN scan.dev : Done(k) => ~scan.dev[k].claimed

\* C19: get_device_by_serial with the auto-release the sessions are created
\* with: every candidate it examines is claimed once, at its creation, gets
\* one serial read and one release before the next candidate is created,
\* the one returned too; a release that does not fail leaves the device
\* unclaimed, one that fails is swallowed and may leave it claimed.  The
\* devices after the match are never claimed and get no transfer.  A serial
\* read that uses up its attempts ends the lookup with the transport error,
\* after the release of that candidate.
Thm_C19 ==
    /\ \A k \in DOMAIN scan.dev :
          /\ k \notin Range(scan.order) => scan.dev[k] = Untouched
          /\ k \in Range(scan.order) => scan.dev[k].claims = 1
          /\ Done(k) =>
                /\ scan.dev[k].transfers = 1
                /\ scan.dev[k].releases = 1
                /\ scan.dev[k].claimed => scan.dev[k].relFailed
    /\ \A k \in DOMAIN scan.dev : k > scan.pos => scan.dev[k] = Untouched
    /\ (scan.pc = "scan" /\ pc # "none") =>
          /\ autodispose
          /\ \A j \in DOMAIN trace : trace[j] = SerialRequest
          /\ Len(trace) <= 1
          /\ pc = "idle" => claimed
          /\ pc = "done" => releases = 1 /\ Len(trace) = 1
    /\ (scan.pc = "returned" /\ scan.found # 0) =>
          /\ scan.pos = scan.found
          /\ claimed => relErr = "USBError"
    /\ scan.pc = "raised" =>
          /\ scan.err = "USBError"
          /\ outcome = "raised"
          /\ attempts = 5
          /\ releases = 1
          /\ claimed => relErr = "USBError"

\* The first device did not match and was released, the second was returned
\* released, the third, an accepted device as well, was never touched.
Wit_C19 ==
    /\ scan.pc = "returned"
    /\ Len(bus) = 3
    /\ scan.order = <<1, 2>>
    /\ scan.found = 2
    /\ scan.dev[1].claims = 1 /\ scan.dev[1].transfers = 1
    /\ scan.dev[1].releases = 1 /\ ~scan.dev[1].claimed
    /\ scan.dev[2].claims = 1 /\ scan.dev[2].transfers = 1
    /\ scan.dev[2].releases = 1 /\ ~scan.dev[2].claimed
    /\ ~claimed
    /\ 3 \in Candidates(scan.products, 0)
    /\ scan.dev[3] = Untouched

====
